---- MODULE Spec2Model ----
(***************************************************************************)
(* A model of pgrtk/__init__.py, the Python post-processing layer of       *)
(* pgr-tk: query_sdb, merge_regions, get_variant_calls,                    *)
(* output_variants_to_vcf_records, compute_graph_diffusion_entropy and     *)
(* group_smps_by_principle_bundle_id.                                      *)
(*                                                                         *)
(* Every function of the source is an operator of the same name, computed  *)
(* the way the code computes it.  Each function has a specification of its *)
(* own (SpecQuery, SpecMerge, ...): Init draws the arguments of one call   *)
(* from bounded sets, and the action applies the function to them.         *)
(*                                                                         *)
(* Python values: a tuple or a list is a sequence, so Python's x[i] is     *)
(* x[i+1] here.  A list that the code mutates in place and that is shared  *)
(* between the caller and the callee (the hit-pair list of an alignment)   *)
(* is an address into `heap`.  None is the empty sequence <<>> where a     *)
(* value is optional, a present value v is <<v>>.                          *)
(***************************************************************************)
EXTENDS Integers, Sequences, FiniteSets, TLC

VARIABLES
    pc,               \* the position of the caller: which call has returned
    query_r,          \* query_sdb: the local r, what query_fragment_to_hps returned
    merge_range_tol,  \* query_sdb: the argument merge_range_tol
    sid_to_alns,      \* query_sdb: the local sid_to_alns after line 204
    aln_range,        \* query_sdb: the local aln_range after line 214
    query_rtn,        \* query_sdb: the returned dictionary
    heap,             \* merge_regions: the hit-pair lists, by address
    rgns,             \* merge_regions: the caller's list object
    tol,              \* merge_regions: the argument tol
    merged,           \* merge_regions: the returned list
    vc_args,          \* get_variant_calls: the arguments of the call
    vc_rtn,           \* get_variant_calls: how the call ended
    variant_calls,    \* output_variants_to_vcf_records: the argument
    vcf_recs,         \* output_variants_to_vcf_records: the returned list
    smps_args,        \* group_smps_by_principle_bundle_id: the arguments
    smps_rtn,         \* group_smps_by_principle_bundle_id: locals and result
    gfa_args,         \* compute_graph_diffusion_entropy: the file and max_nodes
    gfa_rtn           \* compute_graph_diffusion_entropy: locals and result

vars == <<pc, query_r, merge_range_tol, sid_to_alns, aln_range, query_rtn,
          heap, rgns, tol, merged, vc_args, vc_rtn, variant_calls, vcf_recs,
          smps_args, smps_rtn, gfa_args, gfa_rtn>>

queryVars == <<query_r, merge_range_tol, sid_to_alns, aln_range, query_rtn>>
mergeVars == <<heap, rgns, tol, merged>>
variantVars == <<vc_args, vc_rtn>>
vcfVars == <<variant_calls, vcf_recs>>
smpsVars == <<smps_args, smps_rtn>>
gfaVars == <<gfa_args, gfa_rtn>>

\* The value of a variable that the specification at hand does not use.
Idle == <<>>

\* The variables of the functions a specification does not call.
IdleQuery ==
    /\ query_r = Idle /\ merge_range_tol = Idle /\ sid_to_alns = Idle
    /\ aln_range = Idle /\ query_rtn = Idle
IdleMerge == heap = Idle /\ rgns = Idle /\ tol = Idle /\ merged = Idle
IdleVariant == vc_args = Idle /\ vc_rtn = Idle
IdleVcf == variant_calls = Idle /\ vcf_recs = Idle
IdleSmps == smps_args = Idle /\ smps_rtn = Idle
IdleGfa == gfa_args = Idle /\ gfa_rtn = Idle

(***************************************************************************)
(* Helpers for Python's built-ins.                                         *)
(***************************************************************************)

\* Python's < on two tuples or lists of integers: lexicographic, a proper
\* prefix being smaller.
RECURSIVE LexLess(_, _)
LexLess(a, b) ==
    IF b = <<>> THEN FALSE
    ELSE IF a = <<>> THEN TRUE
    ELSE IF Head(a) < Head(b) THEN TRUE
    ELSE IF Head(b) < Head(a) THEN FALSE
    ELSE LexLess(Tail(a), Tail(b))

\* The integers of a hit-pair ((qs, qe, qo), (ts, te, to)), in comparison order.
FlattenHp(hp) == hp[1] \o hp[2]

\* The integers of a list of hit-pairs, in comparison order.
RECURSIVE FlattenAln(_)
FlattenAln(aln) ==
    IF aln = <<>> THEN <<>> ELSE FlattenHp(Head(aln)) \o FlattenAln(Tail(aln))

\* min and max of a non-empty set of integers.
SetMin(S) == CHOOSE x \in S : \A y \in S : x <= y
SetMax(S) == CHOOSE x \in S : \A y \in S : y <= x

(***************************************************************************)
(* merge_regions (lines 269-327).                                          *)
(*                                                                         *)
(* A region is <<bgn, end, length, orientation, aln>>; aln is the address  *)
(* in the heap of the alignment's hit-pair list.                           *)
(***************************************************************************)

\* The comparison key of a region under rgns.sort(): its fields, the
\* hit-pair list by its contents.
RegionKey(h, rg) == <<rg[1], rg[2], rg[3], rg[4]>> \o FlattenAln(h[rg[5]])

\* list.sort() inserts stably: x goes after every element that is not greater.
RECURSIVE InsertRegion(_, _, _)
InsertRegion(h, x, sorted) ==
    IF sorted = <<>> THEN <<x>>
    ELSE IF LexLess(RegionKey(h, x), RegionKey(h, Head(sorted)))
         THEN <<x>> \o sorted
         ELSE <<Head(sorted)>> \o InsertRegion(h, x, Tail(sorted))

RECURSIVE SortRegionsFrom(_, _, _)
SortRegionsFrom(h, rs, sorted) ==
    IF rs = <<>> THEN sorted
    ELSE SortRegionsFrom(h, Tail(rs), InsertRegion(h, Head(rs), sorted))

\* rgns.sort() (line 284): the list in ascending order, equal elements in
\* their original order.
SortRegions(h, rs) == SortRegionsFrom(h, rs, <<>>)

\* [r for r in rgns if r[3] == o] (lines 285-286).
FilterOrientation(rs, o) == SelectSeq(rs, LAMBDA rg : rg[4] = o)

\* The state of one scan: the list built so far (fwd_rgns or rev_rgns), the
\* local `last` (<<>> is None) and the heap.
ScanInit(h) == [out |-> <<>>, last |-> <<>>, heap |-> h]

\* The loop body with line 305 dropped from the merge branch: `last` keeps the
\* end it had before the region was extended.
ScanStepStaleLast(st, rg, t) ==
    IF st.last = <<>>
    THEN [st EXCEPT !.out = Append(@, rg), !.last = <<rg[2]>>]
    ELSE LET n == Len(st.out)
             kept == st.out[n]
         IN  IF rg[2] < kept[2] THEN st
             ELSE IF rg[1] - st.last[1] < t
             THEN [st EXCEPT
                     !.out[n] = <<kept[1], rg[2], kept[3] + rg[3], kept[4], kept[5]>>,
                     !.heap[kept[5]] = st.heap[kept[5]] \o st.heap[rg[5]]]
             ELSE [st EXCEPT !.out = Append(@, rg), !.last = <<rg[2]>>]

\* One iteration of the loop of lines 289-305 (and of its copy, 309-326), for
\* the region rg and the tolerance t.  r = list(r) copies the tuple, not the
\* hit-pair list it names; `+=` on element 4 extends that list in place.
ScanStep(st, rg, t) ==
    IF st.last = <<>>
    THEN [st EXCEPT !.out = Append(@, rg), !.last = <<rg[2]>>]
    ELSE LET n == Len(st.out)
             kept == st.out[n]
         IN  IF rg[2] < kept[2] THEN st
             ELSE IF rg[1] - st.last[1] < t
             THEN [st EXCEPT
                     !.out[n] = <<kept[1], rg[2], kept[3] + rg[3], kept[4], kept[5]>>,
                     !.last = <<rg[2]>>,
                     !.heap[kept[5]] = st.heap[kept[5]] \o st.heap[rg[5]]]
             ELSE [st EXCEPT !.out = Append(@, rg), !.last = <<rg[2]>>]

\* The whole loop over the regions rs of one orientation.
RECURSIVE ScanRegions(_, _, _)
ScanRegions(st, rs, t) ==
    IF rs = <<>> THEN st
    ELSE ScanRegions(ScanStep(st, Head(rs), t), Tail(rs), t)

\* merge_regions(rgns, tol) on the heap h: what it returns (rtn), the caller's
\* list after the call (rgns, sorted in place) and the heap after the call.
merge_regions(h, rs, t) ==
    LET sorted == SortRegions(h, rs)
        fwd == ScanRegions(ScanInit(h), FilterOrientation(sorted, 0), t)
        rev == ScanRegions(ScanInit(fwd.heap), FilterOrientation(sorted, 1), t)
    IN  [rtn |-> fwd.out \o rev.out, rgns |-> sorted, heap |-> rev.heap]

\* A list of regions with each hit-pair list in place of its address.
Deref(h, rs) ==
    [i \in 1..Len(rs) |-> <<rs[i][1], rs[i][2], rs[i][3], rs[i][4], h[rs[i][5]]>>]

(***************************************************************************)
(* The calls of merge_regions.                                             *)
(***************************************************************************)

MaxRgns == 3      \* the caller's list holds at most MaxRgns regions
MaxCoord == 2     \* target coordinates are in 0..MaxCoord
MaxTol == 1       \* tol is in 0..MaxTol

\* The regions query_sdb builds (line 214): bgn <= end, length = end - bgn.
\* Region i of the list names the hit-pair list at address i.
RegionAt(i, b, e, o) == <<b, e, e - b, o, i>>

\* The list at address i: one hit-pair, on the target interval of the region.
HitPairsAt(rg) == << << <<rg[5], rg[5], 0>>, <<rg[1], rg[2], rg[4]>> >> >>

RegionLists ==
    UNION {
        { rs \in [1..n -> (0..MaxCoord) \X (0..MaxCoord) \X {0, 1}] :
            \A i \in 1..n : rs[i][1] <= rs[i][2] } : n \in 1..MaxRgns }

InitMerge ==
    /\ pc = "merge_start"
    /\ \E rs \in RegionLists :
          /\ rgns = [i \in 1..Len(rs) |-> RegionAt(i, rs[i][1], rs[i][2], rs[i][3])]
          /\ heap = [i \in 1..Len(rs) |->
                       HitPairsAt(RegionAt(i, rs[i][1], rs[i][2], rs[i][3]))]
    /\ tol \in 0..MaxTol
    /\ merged = Idle
    /\ IdleQuery /\ IdleVariant /\ IdleVcf /\ IdleSmps /\ IdleGfa

\* merged = merge_regions(rgns, tol)
MergeRegions ==
    /\ pc = "merge_start"
    /\ LET res == merge_regions(heap, rgns, tol)
       IN  /\ merged' = res.rtn
           /\ rgns' = res.rgns
           /\ heap' = res.heap
    /\ pc' = "merge_done"
    /\ UNCHANGED <<tol, queryVars, variantVars, vcfVars, smpsVars, gfaVars>>

NextMerge == MergeRegions

SpecMerge == InitMerge /\ [][NextMerge]_vars


\* C3: in the list merge_regions returns, no two regions of one orientation
\* overlap by more than tol: for an earlier and a later region of the same
\* orientation, the earlier one's end minus the later one's begin is <= tol.
C3_NoOverlapBeyondTol ==
    pc = "merge_done" =>
        \A i \in 1..Len(merged) : \A j \in (i + 1)..Len(merged) :
            merged[i][4] = merged[j][4] => merged[i][2] - merged[j][1] <= tol

\* C3's case: a call that merged or dropped a region and returned two regions
\* of one orientation.
C3_Witness ==
    /\ pc = "merge_done"
    /\ Len(merged) < Len(rgns)
    /\ \E i \in 1..Len(merged) : \E j \in (i + 1)..Len(merged) :
          merged[i][4] = merged[j][4]

\* C4: merge_regions does not modify its input: after the call the caller's
\* list holds the same regions in the same order, and every hit-pair list has
\* the contents it had before the call.
C4_InputUnchanged ==
    [][pc = "merge_start" => (rgns' = rgns /\ heap' = heap)]_vars

\* C9: merge_regions is idempotent: merging the returned list again with the
\* same tol returns a list equal to it, field by field and hit-pair by
\* hit-pair, in the same order.
C9_Idempotent ==
    pc = "merge_done" =>
        LET again == merge_regions(heap, merged, tol)
        IN  Deref(again.heap, again.rtn) = Deref(heap, merged)

\* C9's case: the first call merged or dropped a region and returned a
\* reverse region that begins before a forward region returned ahead of it,
\* so the second call's sort reorders its input.
C9_Witness ==
    /\ pc = "merge_done"
    /\ Len(merged) < Len(rgns)
    /\ \E i \in 1..Len(merged) : \E j \in (i + 1)..Len(merged) :
          merged[j][1] < merged[i][1]

(***************************************************************************)
(* query_sdb (lines 124-221).                                              *)
(*                                                                         *)
(* r, the value of seq_index_db.query_fragment_to_hps(...), is a list of   *)
(* (sid, alns); alns is a list of (score, aln); aln is a list of hit-pairs *)
(* ((qs, qe, qo), (ts, te, to)).  A dictionary is a function on its keys.  *)
(***************************************************************************)

\* The hit-pairs of aln whose orientation bits agree (line 199) and differ.
RECURSIVE CountAgree(_)
CountAgree(aln) ==
    IF aln = <<>> THEN 0
    ELSE (IF Head(aln)[1][3] = Head(aln)[2][3] THEN 1 ELSE 0) + CountAgree(Tail(aln))

CountDiffer(aln) == Len(aln) - CountAgree(aln)

\* d.setdefault(k, []) followed by d[k].append(v).
DictAppend(d, k, v) ==
    IF k \in DOMAIN d THEN [d EXCEPT ![k] = Append(@, v)]
    ELSE [x \in DOMAIN d \cup {k} |-> IF x = k THEN <<v>> ELSE d[x]]

\* The loop of lines 194-204 over the alignments of one sid.  st holds the
\* counters f_count and r_count, set to 0 once per sid (lines 192-193), and
\* the dictionary sid_to_alns.
RECURSIVE AlnsLoop(_, _, _)
AlnsLoop(st, sid, alns) ==
    IF alns = <<>> THEN st
    ELSE LET aln == Head(alns)[2]
         IN  IF Len(aln) > 2
             THEN LET f == st.f_count + CountAgree(aln)
                      rc == st.r_count + CountDiffer(aln)
                      orientation == IF f > rc THEN 0 ELSE 1
                  IN  AlnsLoop([f_count |-> f, r_count |-> rc,
                                sid_to_alns |->
                                    DictAppend(st.sid_to_alns, sid, <<aln, orientation>>)],
                               sid, Tail(alns))
             ELSE AlnsLoop(st, sid, Tail(alns))

\* The loop of lines 190-204 over r.
RECURSIVE SidLoop(_, _)
SidLoop(d, rr) ==
    IF rr = <<>> THEN d
    ELSE SidLoop(AlnsLoop([f_count |-> 0, r_count |-> 0, sid_to_alns |-> d],
                          Head(rr)[1], Head(rr)[2]).sid_to_alns,
                 Tail(rr))

\* list.sort() on a list of tuples of integers.
RECURSIVE InsertTuple(_, _)
InsertTuple(x, sorted) ==
    IF sorted = <<>> THEN <<x>>
    ELSE IF LexLess(x, Head(sorted)) THEN <<x>> \o sorted
    ELSE <<Head(sorted)>> \o InsertTuple(x, Tail(sorted))

RECURSIVE SortTuples(_)
SortTuples(s) ==
    IF s = <<>> THEN <<>> ELSE InsertTuple(s[Len(s)], SortTuples(SubSeq(s, 1, Len(s) - 1)))

\* Lines 209-214: the region of one (aln, orientation), its hit-pair list by
\* value.
RegionOf(aln, orientation) ==
    LET target_coor == SortTuples([i \in 1..Len(aln) |-> <<aln[i][2][1], aln[i][2][2]>>])
        first == target_coor[1]
        final == target_coor[Len(target_coor)]
        bgn == IF first[1] <= first[2] THEN first[1] ELSE first[2]
        end == IF final[1] >= final[2] THEN final[1] ELSE final[2]
    IN  <<bgn, end, end - bgn, orientation, aln>>

\* Lines 206-214: aln_range, from sid_to_alns.
AlnRangeOf(d) ==
    [sid \in DOMAIN d |-> [i \in 1..Len(d[sid]) |-> RegionOf(d[sid][i][1], d[sid][i][2])]]

\* Lines 218-219 for one sid.  Element 4 of region i is the list object of
\* the i-th alignment sid_to_alns holds for the sid, which is the list object
\* in r: region i's list is at address i.  The value merge_regions returns and
\* the lists after the call.
MergeOfSid(rs, t) ==
    merge_regions([i \in 1..Len(rs) |-> rs[i][5]],
                  [i \in 1..Len(rs) |-> <<rs[i][1], rs[i][2], rs[i][3], rs[i][4], i>>],
                  t)

\* The returned list of lines 218-219, by value.
MergeByValue(rs, t) ==
    LET res == MergeOfSid(rs, t) IN Deref(res.heap, res.rtn)

\* The alignments of more than two hit-pairs (line 195) among the first k of
\* alns.
KeptUpTo(alns, k) == Cardinality({ i \in 1..k : Len(alns[i][2]) > 2 })

\* The alignments of more than two hit-pairs in the entries of rr before
\* entry e that have the sid of entry e.
RECURSIVE KeptBefore(_, _, _)
KeptBefore(rr, e, n) ==
    IF n = 0 THEN 0
    ELSE KeptBefore(rr, e, n - 1)
         + (IF rr[n][1] = rr[e][1] THEN KeptUpTo(rr[n][2], Len(rr[n][2])) ELSE 0)

\* r when the call returns: an alignment of more than two hit-pairs is the
\* list its region names, as merge_regions leaves it (extended in place by
\* lines 302 and 322 when a region was merged into its region).
RAfter(rr, ranges, t) ==
    IF t > 0
    THEN [e \in 1..Len(rr) |->
            LET sid == rr[e][1]
                alns == rr[e][2]
            IN  <<sid,
                  [k \in 1..Len(alns) |->
                      IF Len(alns[k][2]) > 2
                      THEN <<alns[k][1],
                             MergeOfSid(ranges[sid], t).heap[
                                 KeptBefore(rr, e, e - 1) + KeptUpTo(alns, k)]>>
                      ELSE alns[k]]>>]
    ELSE rr

\* query_sdb, from r on: the locals sid_to_alns and aln_range (as lines 204
\* and 214 leave them), r as it is when the call returns, and the returned
\* dictionary.
query_sdb(rr, t) ==
    LET d == SidLoop(<<>>, rr)
        ranges == AlnRangeOf(d)
    IN  [sid_to_alns |-> d,
         aln_range |-> ranges,
         r |-> RAfter(rr, ranges, t),
         rtn |-> IF t > 0 THEN [sid \in DOMAIN ranges |-> MergeByValue(ranges[sid], t)]
                 ELSE ranges]

(***************************************************************************)
(* The calls of query_sdb.                                                 *)
(***************************************************************************)

MaxAlnLen == 3    \* an alignment holds at most MaxAlnLen hit-pairs
MaxAlns == 2      \* the index returns at most MaxAlns alignments for a sid

Bit == {0, 1}

\* Hit-pairs that differ in their orientation bits, on one target interval.
OrientHps == { << <<0, 1, qo>>, <<0, 1, t>> >> : qo \in Bit, t \in Bit }

\* Forward hit-pairs that differ in their target interval; start > end occurs.
CoordHps == { << <<0, 1, 0>>, <<ts, te, 0>> >> : ts \in 0..MaxCoord, te \in 0..MaxCoord }

AlnsOver(hps) == UNION { [1..n -> hps] : n \in 0..MaxAlnLen }

\* (score, aln) lists of n alignments over hps.
ScoredAlns(hps, n) == { [i \in 1..n |-> <<0, a[i]>>] : a \in [1..n -> AlnsOver(hps)] }

\* What the index returns: one sid with up to MaxAlns alignments that differ in
\* orientation, one sid with one alignment of any target intervals, or two
\* entries, of one sid or of two, with one full alignment each.
QueryResults ==
    UNION { { << <<1, alns>> >> : alns \in ScoredAlns(OrientHps, n) } : n \in 1..MaxAlns }
    \cup { << <<1, alns>> >> : alns \in ScoredAlns(CoordHps, 1) }
    \cup { << <<1, <<<<0, a>>>> >>, <<sid, <<<<0, b>>>> >> >> :
             sid \in {1, 2}, a \in [1..MaxAlnLen -> OrientHps], b \in [1..MaxAlnLen -> OrientHps] }

InitQuery ==
    /\ pc = "query_start"
    /\ query_r \in QueryResults
    /\ merge_range_tol \in 0..MaxTol
    /\ sid_to_alns = Idle /\ aln_range = Idle /\ query_rtn = Idle
    /\ IdleMerge /\ IdleVariant /\ IdleVcf /\ IdleSmps /\ IdleGfa

\* query_rtn = query_sdb(seq_index_db, query_seq, merge_range_tol = ...)
QuerySdb ==
    /\ pc = "query_start"
    /\ LET res == query_sdb(query_r, merge_range_tol)
       IN  /\ sid_to_alns' = res.sid_to_alns
           /\ aln_range' = res.aln_range
           /\ query_rtn' = res.rtn
           /\ query_r' = res.r
    /\ pc' = "query_done"
    /\ UNCHANGED <<merge_range_tol, mergeVars, variantVars, vcfVars,
                   smpsVars, gfaVars>>

NextQuery == QuerySdb

SpecQuery == InitQuery /\ [][NextQuery]_vars

\* Every target coordinate, start or end, of the hit-pairs of aln.
TargetCoords(aln) == UNION { {aln[i][2][1], aln[i][2][2]} : i \in 1..Len(aln) }

\* C1: the region built from a retained alignment has orientation 0 if and
\* only if more of that alignment's own hit-pairs have equal orientation bits
\* than different ones, and orientation 1 otherwise, whatever alignments the
\* index returned before it for the same sid.
C1_OwnMajorityOrientation ==
    pc = "query_done" =>
        \A sid \in DOMAIN aln_range : \A i \in 1..Len(aln_range[sid]) :
            LET rg == aln_range[sid][i]
            IN  rg[4] = (IF CountAgree(rg[5]) > CountDiffer(rg[5]) THEN 0 ELSE 1)

\* C2: the region built from a retained alignment begins at the minimum and
\* ends at the maximum of all target start and end coordinates of its
\* hit-pairs, and begin <= end.
C2_RegionCoversAllHitPairs ==
    pc = "query_done" =>
        \A sid \in DOMAIN aln_range : \A i \in 1..Len(aln_range[sid]) :
            LET rg == aln_range[sid][i]
            IN  /\ rg[1] = SetMin(TargetCoords(rg[5]))
                /\ rg[2] = SetMax(TargetCoords(rg[5]))
                /\ rg[1] <= rg[2]

(***************************************************************************)
(* get_variant_calls (lines 330-429).                                      *)
(*                                                                         *)
(* A string is the sequence of its characters.  A segment is a record      *)
(* with ref_loc and tgt_loc, each (id, bgn, len), and t, the byte of its   *)
(* kind.  A call ends by returning (status "ok") or by raising (status is  *)
(* the exception's name).                                                  *)
(***************************************************************************)

OrdM == 77             \* ord('M'), Match
OrdX == 88             \* ord('X'), Mismatch
OrdI == 73             \* ord('I'), Insertion
OrdD == 68             \* ord('D'), Deletion
OrdUnspecified == 63   \* the byte of a segment of none of these kinds

\* The characters of code 32 to 95, in order.
AsciiLow ==
    <<
       " ", "!", "\"", "#", "$", "%", "&", "'", "(", ")", "*", "+",
       ",", "-", ".", "/", "0", "1", "2", "3", "4", "5", "6", "7",
       "8", "9", ":", ";", "<", "=", ">", "?", "@", "A", "B", "C",
       "D", "E", "F", "G", "H", "I", "J", "K", "L", "M", "N", "O",
       "P", "Q", "R", "S", "T", "U", "V", "W", "X", "Y", "Z", "[",
       "\\", "]", "^", "_"
    >>

\* The characters of code 97 to 126, in order.
AsciiHigh ==
    <<
       "a", "b", "c", "d", "e", "f", "g", "h", "i", "j", "k", "l",
       "m", "n", "o", "p", "q", "r", "s", "t", "u", "v", "w", "x",
       "y", "z", "{", "|", "}", "~"
    >>

\* chr(s.t) (line 423): the one-character string of code t.  A character
\* that a string of this module cannot hold is written <<"chr", t>>.
Chr(t) ==
    IF t \in 32..95 THEN AsciiLow[t - 31]
    ELSE IF t \in 97..126 THEN AsciiHigh[t - 96]
    ELSE <<"chr", t>>

\* s[i] is defined (no IndexError) for -len(s) <= i < len(s).
PyIndexOk(str, i) == -Len(str) <= i /\ i < Len(str)

\* s[i]: a negative i counts from the end of the string.
PyIndex(str, i) == IF i >= 0 THEN str[i + 1] ELSE str[Len(str) + i + 1]

\* The bound a of a slice, clamped as Python clamps it.
PySliceBound(str, a) ==
    IF a < 0 THEN (IF a + Len(str) < 0 THEN 0 ELSE a + Len(str))
    ELSE (IF a > Len(str) THEN Len(str) ELSE a)

\* s[a:b]: never an error; a negative bound counts from the end.
PySlice(str, a, b) ==
    LET lo == PySliceBound(str, a)
        hi == PySliceBound(str, b)
    IN  IF lo >= hi THEN <<>> ELSE SubSeq(str, lo + 1, hi)

\* The loop of lines 396-401 from (p0, p1), tl = s.tgt_loc[2]: where it breaks,
\* or that an index raised.  `and` evaluates its right side only if the left
\* side holds.
RECURSIVE ShiftInsertion(_, _, _, _, _)
ShiftInsertion(rs0, cs0, p0, p1, tl) ==
    IF ~(PyIndexOk(rs0, p0 - 1) /\ PyIndexOk(cs0, p1 + tl - 1))
    THEN [status |-> "IndexError", p0 |-> p0, p1 |-> p1]
    ELSE IF PyIndex(rs0, p0 - 1) # PyIndex(cs0, p1 + tl - 1)
    THEN [status |-> "ok", p0 |-> p0, p1 |-> p1]
    ELSE IF ~(PyIndexOk(rs0, p0 - 2) /\ PyIndexOk(cs0, p1 - 2))
    THEN [status |-> "IndexError", p0 |-> p0, p1 |-> p1]
    ELSE IF PyIndex(rs0, p0 - 2) # PyIndex(cs0, p1 - 2)
    THEN [status |-> "ok", p0 |-> p0, p1 |-> p1]
    ELSE ShiftInsertion(rs0, cs0, p0 - 1, p1 - 1, tl)

\* The loop of lines 412-417 from (p0, p1), rl = s.ref_loc[2].  `reads` collects
\* every index the loop evaluates on rs0 or cs0, in the order line 413
\* evaluates them: an index that raises ends the call before the next one is
\* evaluated.
RECURSIVE ShiftDeletion(_, _, _, _, _, _)
ShiftDeletion(rs0, cs0, p0, p1, rl, reads) ==
    IF ~(p0 > 0 /\ p1 > 0)
    THEN [status |-> "ok", p0 |-> p0, p1 |-> p1, reads |-> reads]
    ELSE LET reads1 == reads \cup {p0 + rl - 1}
             reads2 == reads1 \cup {p1 - 1}
             reads3 == reads2 \cup {p0 - 2}
             reads4 == reads3 \cup {p1 - 2}
         IN  IF ~PyIndexOk(rs0, p0 + rl - 1)
             THEN [status |-> "IndexError", p0 |-> p0, p1 |-> p1, reads |-> reads1]
             ELSE IF ~PyIndexOk(cs0, p1 - 1)
             THEN [status |-> "IndexError", p0 |-> p0, p1 |-> p1, reads |-> reads2]
             ELSE IF PyIndex(rs0, p0 + rl - 1) # PyIndex(cs0, p1 - 1)
             THEN [status |-> "ok", p0 |-> p0, p1 |-> p1, reads |-> reads2]
             ELSE IF ~PyIndexOk(rs0, p0 - 2)
             THEN [status |-> "IndexError", p0 |-> p0, p1 |-> p1, reads |-> reads3]
             ELSE IF ~PyIndexOk(cs0, p1 - 2)
             THEN [status |-> "IndexError", p0 |-> p0, p1 |-> p1, reads |-> reads4]
             ELSE IF PyIndex(rs0, p0 - 2) # PyIndex(cs0, p1 - 2)
             THEN [status |-> "ok", p0 |-> p0, p1 |-> p1, reads |-> reads4]
             ELSE ShiftDeletion(rs0, cs0, p0 - 1, p1 - 1, rl, reads4)

\* variant_calls.setdefault(key, {}); variant_calls[key][kk] = value
\* (lines 426-427).
StoreCall(calls, key, kk, value) ==
    LET inner == IF key \in DOMAIN calls THEN calls[key] ELSE <<>>
        inner2 == [x \in DOMAIN inner \cup {kk} |-> IF x = kk THEN value ELSE inner[x]]
    IN  [x \in DOMAIN calls \cup {key} |-> IF x = key THEN inner2 ELSE calls[x]]

\* Lines 423-427 with the locals key, ref_bases and alt_bases as loc holds them.
\* A local that no earlier statement has bound raises UnboundLocalError.
StoreValue(st, loc, sg, a) ==
    IF ~loc.bound
    THEN [st EXCEPT !.status = "UnboundLocalError"]
    ELSE LET value == <<Chr(sg.t), loc.ref_bases, loc.alt_bases,
                        <<loc.key[1], loc.key[2], sg.ref_loc[3]>>,
                        <<sg.tgt_loc[1], a.ctg_bgn + sg.tgt_loc[2], sg.tgt_loc[3]>>,
                        a.strand>>
         IN  [st EXCEPT
                !.variant_calls = StoreCall(@, loc.key, <<sg.tgt_loc[1], a.strand>>, value),
                !.loc = loc]

\* One iteration of the loop of lines 384-427, for the segment sg.  st holds
\* variant_calls, the locals key, ref_bases and alt_bases that outlive the
\* iteration (loc), and d_reads: every index and slice start evaluated on rs0
\* or cs0 for a Deletion segment.
SegmentStep(st, sg, a) ==
    LET ref_id == sg.ref_loc[1]
    IN  IF st.status # "ok" \/ sg.t = OrdM THEN st
        ELSE IF sg.t = OrdX
        THEN StoreValue(st,
                 [bound |-> TRUE,
                  key |-> <<ref_id, sg.ref_loc[2] + a.ref_bgn + 1>>,
                  ref_bases |-> PySlice(a.rs0, sg.ref_loc[2], sg.ref_loc[2] + sg.ref_loc[3]),
                  alt_bases |-> PySlice(a.cs0, sg.tgt_loc[2], sg.tgt_loc[2] + sg.tgt_loc[3])],
                 sg, a)
        ELSE IF sg.t = OrdI
        THEN LET sh == ShiftInsertion(a.rs0, a.cs0, sg.ref_loc[2], sg.tgt_loc[2], sg.tgt_loc[3])
             IN  IF sh.status # "ok" THEN [st EXCEPT !.status = sh.status]
                 ELSE StoreValue(st,
                          [bound |-> TRUE,
                           key |-> <<ref_id, sh.p0 + a.ref_bgn>>,
                           ref_bases |-> PySlice(a.rs0, sh.p0 - 1, sh.p0 + sg.ref_loc[3]),
                           alt_bases |-> PySlice(a.cs0, sh.p1 - 1, sh.p1 + sg.tgt_loc[3])],
                          sg, a)
        ELSE IF sg.t = OrdD
        THEN LET sh == ShiftDeletion(a.rs0, a.cs0, sg.ref_loc[2], sg.tgt_loc[2],
                                     sg.ref_loc[3], st.d_reads)
             IN  IF sh.status # "ok"
                 THEN [st EXCEPT !.status = sh.status, !.d_reads = sh.reads]
                 ELSE StoreValue([st EXCEPT !.d_reads = sh.reads \cup {sh.p0 - 1, sh.p1 - 1}],
                          [bound |-> TRUE,
                           key |-> <<ref_id, sh.p0 + a.ref_bgn>>,
                           ref_bases |-> PySlice(a.rs0, sh.p0 - 1, sh.p0 + sg.ref_loc[3]),
                           alt_bases |-> PySlice(a.cs0, sh.p1 - 1, sh.p1 + sg.tgt_loc[3])],
                          sg, a)
        ELSE StoreValue(st, st.loc, sg, a)

RECURSIVE SegmentLoop(_, _, _)
SegmentLoop(st, segs, a) ==
    IF segs = <<>> THEN st ELSE SegmentLoop(SegmentStep(st, Head(segs), a), Tail(segs), a)

\* get_variant_calls(aln_segs, ref_bgn, ctg_bgn, rs0, cs0, strand), the
\* arguments in the record a: how the call ends, the dictionary it has built
\* and the indices it evaluated for Deletion segments.
get_variant_calls(a) ==
    LET st == SegmentLoop([status |-> "ok", variant_calls |-> <<>>, d_reads |-> {},
                           loc |-> [bound |-> FALSE, key |-> <<>>,
                                    ref_bases |-> <<>>, alt_bases |-> <<>>]],
                          a.aln_segs, a)
    IN  [status |-> st.status, variant_calls |-> st.variant_calls, d_reads |-> st.d_reads]

(***************************************************************************)
(* The calls of get_variant_calls.                                         *)
(***************************************************************************)

SeqLen == 3       \* rs0 and cs0 hold SeqLen bases
MaxSegs == 2      \* aln_segs holds at most MaxSegs segments
MaxRefBgn == 1    \* ref_bgn is in 0..MaxRefBgn

Bases == {"A", "C"}

\* A segment of one base at reference offset rb and contig offset tb: an
\* insertion has no reference base, a deletion no contig base.
Segment(t, rb, tb) ==
    [ref_loc |-> <<0, rb, IF t = OrdI THEN 0 ELSE 1>>,
     tgt_loc |-> <<0, tb, IF t = OrdD THEN 0 ELSE 1>>,
     t |-> t]

Segments ==
    { Segment(t, rb, tb) : t \in {OrdM, OrdX, OrdI, OrdD, OrdUnspecified},
                           rb \in 0..(SeqLen - 1), tb \in 0..(SeqLen - 1) }

InitVariant ==
    /\ pc = "variant_start"
    /\ \E segs \in UNION { [1..n -> Segments] : n \in 0..MaxSegs } :
       \E rs0 \in [1..SeqLen -> Bases], cs0 \in [1..SeqLen -> Bases], rb \in 0..MaxRefBgn :
          vc_args = [aln_segs |-> segs, ref_bgn |-> rb, ctg_bgn |-> 0,
                     rs0 |-> rs0, cs0 |-> cs0, strand |-> 0]
    /\ vc_rtn = Idle
    /\ IdleQuery /\ IdleMerge /\ IdleVcf /\ IdleSmps /\ IdleGfa

\* vc_rtn = get_variant_calls(aln_segs, ref_bgn, ctg_bgn, rs0, cs0, strand)
GetVariantCalls ==
    /\ pc = "variant_start"
    /\ vc_rtn' = get_variant_calls(vc_args)
    /\ pc' = "variant_done"
    /\ UNCHANGED <<vc_args, queryVars, mergeVars, vcfVars, smpsVars, gfaVars>>

NextVariant == GetVariantCalls

SpecVariant == InitVariant /\ [][NextVariant]_vars

\* The segments of the defined kinds.
DefinedKinds == {OrdM, OrdX, OrdI, OrdD}

\* C5: a segment whose kind is Unspecified, or outside the defined set, is
\* ignored wherever it occurs: the call ends as it ends without these
\* segments, with the same mapping (no error, no entry added or changed).
C5_UnspecifiedIgnored ==
    pc = "variant_done" =>
        LET without == get_variant_calls(
                [vc_args EXCEPT !.aln_segs =
                    SelectSeq(vc_args.aln_segs, LAMBDA sg : sg.t \in DefinedKinds)])
        IN  /\ vc_rtn.status = without.status
            /\ vc_rtn.variant_calls = without.variant_calls

\* C10: for a Deletion segment no read of rs0 or cs0 uses a negative index:
\* every index of the shift loop and every slice start of the base windows
\* is >= 0.
C10_DeletionIndicesNonNegative ==
    pc = "variant_done" => \A i \in vc_rtn.d_reads : i >= 0

\* The records of the returned mapping: one per key and (target id, strand).
StoredRecords(calls) ==
    UNION { { <<key, kk>> : kk \in DOMAIN calls[key] } : key \in DOMAIN calls }

\* The places in aln_segs of the Mismatch, Insertion and Deletion segments.
VariantSegments(aln_segs) ==
    { i \in 1..Len(aln_segs) : aln_segs[i].t \in {OrdX, OrdI, OrdD} }

\* The segments follow one another along both sequences: each begins, on the
\* reference and on the contig, at or after the end of the one before it.
InAlignmentOrder(aln_segs) ==
    \A i \in 1..(Len(aln_segs) - 1) :
        /\ aln_segs[i].ref_loc[2] + aln_segs[i].ref_loc[3] <= aln_segs[i + 1].ref_loc[2]
        /\ aln_segs[i].tgt_loc[2] + aln_segs[i].tgt_loc[3] <= aln_segs[i + 1].tgt_loc[2]

\* C11: no produced record overwrites another: when the call returns, on
\* segments of the defined kinds that follow one another along the
\* alignment, the returned mapping holds as many records as aln_segs holds
\* Mismatch, Insertion and Deletion segments.
C11_NoRecordOverwritten ==
    (/\ pc = "variant_done" /\ vc_rtn.status = "ok"
     /\ \A i \in 1..Len(vc_args.aln_segs) : vc_args.aln_segs[i].t \in DefinedKinds
     /\ InAlignmentOrder(vc_args.aln_segs)) =>
        Cardinality(StoredRecords(vc_rtn.variant_calls))
            = Cardinality(VariantSegments(vc_args.aln_segs))

(***************************************************************************)
(* output_variants_to_vcf_records (lines 432-480).                         *)
(*                                                                         *)
(* variant_calls maps a key (ref_id, position) to the key's dictionary,    *)
(* here the list of its (kk, value) items in the order Python iterates     *)
(* them; value is the record get_variant_calls stores.                     *)
(***************************************************************************)

Digit == <<"0", "1", "2", "3", "4", "5", "6", "7", "8", "9">>

\* "{}".format(n) for an integer n >= 0: its decimal digits.
RECURSIVE FormatInt(_)
FormatInt(n) ==
    IF n < 10 THEN <<Digit[n + 1]>> ELSE FormatInt(n \div 10) \o <<Digit[(n % 10) + 1]>>

\* list(d.keys()), in some order.
RECURSIVE KeyList(_)
KeyList(S) ==
    IF S = {} THEN <<>>
    ELSE LET k == CHOOSE x \in S : TRUE IN <<k>> \o KeyList(S \ {k})

\* Line 474 without its test: every allele is emitted.
EmitsAlways(ref_base, alt_base) == TRUE

\* Line 474: an allele whose ref bases equal its alt bases is not emitted.
Emits(ref_base, alt_base) == ref_base # alt_base

\* Lines 451-478 for the key k: gt_idx numbers the items 1, 2, ... (lines
\* 457-459), count maps each gt_idx to the one allele v[kk][:3] it numbers
\* (lines 461-464), and line 470 visits the gt_idx in ascending order.
RECURSIVE KeyRecords(_, _, _, _)
KeyRecords(k, items, gt_idx, ref_name) ==
    IF gt_idx > Len(items) THEN <<>>
    ELSE LET allele == SubSeq(items[gt_idx][2], 1, 3)
             ref_base == allele[2]
             alt_base == allele[3]
             rest == KeyRecords(k, items, gt_idx + 1, ref_name)
         IN  IF Emits(ref_base, alt_base)
             THEN << <<ref_name, FormatInt(k[2]), ".", ref_base, alt_base,
                       "30", ".", ".", "GT:AD", "./1:0,1:">> >> \o rest
             ELSE rest

\* The loop of lines 450-478 over the sorted keys.
RECURSIVE KeysLoop(_, _, _)
KeysLoop(calls, keys, ref_name) ==
    IF keys = <<>> THEN <<>>
    ELSE KeyRecords(Head(keys), calls[Head(keys)], 1, ref_name)
         \o KeysLoop(calls, Tail(keys), ref_name)

output_variants_to_vcf_records(calls, ref_name) ==
    KeysLoop(calls, SortTuples(KeyList(DOMAIN calls)), ref_name)

(***************************************************************************)
(* The calls of output_variants_to_vcf_records.                            *)
(***************************************************************************)

MaxKeys == 2      \* variant_calls holds at most MaxKeys keys
MaxPos == 2       \* reference positions are in 1..MaxPos

RefName == "chr1"

\* The record get_variant_calls stores at the key k for strand st: a
\* substitution ("sub"), a substitution of a base by itself ("same"), a
\* deletion ("del").
ValueAt(k, st, what) ==
    CASE what = "sub" -> <<"X", <<"A">>, <<"C">>, <<k[1], k[2], 1>>, <<0, k[2], 1>>, st>>
      [] what = "same" -> <<"X", <<"A">>, <<"A">>, <<k[1], k[2], 1>>, <<0, k[2], 1>>, st>>
      [] OTHER -> <<"D", <<"A", "C">>, <<"A">>, <<k[1], k[2], 1>>, <<0, k[2], 0>>, st>>

\* The shapes of a key's dictionary: one item or two, by strand and record;
\* the (target id, strand) keys of a dictionary are distinct.
ItemShapes ==
    UNION { { sh \in [1..n -> Bit \X {"sub", "same", "del"}] :
                \A i \in 1..n : \A j \in 1..n : i # j => sh[i][1] # sh[j][1] }
            : n \in 1..2 }

\* The dictionary of shape sh at the key k, as the list of its items.
ItemsAt(k, sh) ==
    [i \in 1..Len(sh) |-> << <<0, sh[i][1]>>, ValueAt(k, sh[i][1], sh[i][2]) >>]

VariantKeys == {0, 1} \X (1..MaxPos)

KeySets == { S \in SUBSET VariantKeys : Cardinality(S) <= MaxKeys }

InitVcf ==
    /\ pc = "vcf_start"
    /\ \E S \in KeySets : \E f \in [S -> ItemShapes] :
          variant_calls = [k \in S |-> ItemsAt(k, f[k])]
    /\ vcf_recs = Idle
    /\ IdleQuery /\ IdleMerge /\ IdleVariant /\ IdleSmps /\ IdleGfa

\* vcf_recs = output_variants_to_vcf_records(variant_calls, ref_name)
OutputVariantsToVcfRecords ==
    /\ pc = "vcf_start"
    /\ vcf_recs' = output_variants_to_vcf_records(variant_calls, RefName)
    /\ pc' = "vcf_done"
    /\ UNCHANGED <<variant_calls, queryVars, mergeVars, variantVars, smpsVars, gfaVars>>

NextVcf == OutputVariantsToVcfRecords

SpecVcf == InitVcf /\ [][NextVcf]_vars

\* The alleles with ref bases different from alt bases: (key, place in the
\* key's dictionary).
Emitting ==
    { a \in UNION { {<<k, i>> : i \in 1..Len(variant_calls[k])} : k \in DOMAIN variant_calls } :
        variant_calls[a[1]][a[2]][2][2] # variant_calls[a[1]][a[2]][2][3] }

\* a comes before b: by ref_id, then by position, then by place.
AlleleBefore(a, b) ==
    \/ a[1][1] < b[1][1]
    \/ a[1][1] = b[1][1] /\ a[1][2] < b[1][2]
    \/ a[1] = b[1] /\ a[2] < b[2]

\* C8: the returned list holds exactly one 10-field record for each allele
\* whose ref bases differ from its alt bases, in ascending (ref_id, position)
\* order of the keys, and none for an allele whose ref bases equal its alt
\* bases; so no record has ref equal to alt.
C8_OneRecordPerDifferingAllele ==
    pc = "vcf_done" =>
        /\ Len(vcf_recs) = Cardinality(Emitting)
        /\ \A a \in Emitting :
              LET rank == Cardinality({b \in Emitting : AlleleBefore(b, a)}) + 1
                  value == variant_calls[a[1]][a[2]][2]
              IN  vcf_recs[rank] = <<RefName, FormatInt(a[1][2]), ".", value[2], value[3],
                                     "30", ".", ".", "GT:AD", "./1:0,1:">>
        /\ \A i \in 1..Len(vcf_recs) : Len(vcf_recs[i]) = 10 /\ vcf_recs[i][4] # vcf_recs[i][5]

\* C8's case: two keys inserted with the larger ref_id at the smaller
\* position, one of them with an allele that is dropped and one that is kept.
C8_Witness ==
    /\ pc = "vcf_done"
    /\ \E k1 \in DOMAIN variant_calls : \E k2 \in DOMAIN variant_calls :
          /\ k1[1] < k2[1] /\ k2[2] < k1[2]
          /\ Len(variant_calls[k1]) = 2
          /\ <<k1, 1>> \notin Emitting /\ <<k1, 2>> \in Emitting /\ <<k2, 1>> \in Emitting
    /\ Len(vcf_recs) >= 2

(***************************************************************************)
(* group_smps_by_principle_bundle_id (lines 544-620).                      *)
(*                                                                         *)
(* smps is a list of (smp, bundle_info): smp = (shimmer0, shimmer1, pos0,  *)
(* pos1, direction), bundle_info is None (<<>>) or (bundle id, direction,  *)
(* position in the bundle).  A partition is a list of                      *)
(* (smp, bid, d, bpos).                                                    *)
(***************************************************************************)

\* new_partition[-1][0][3] - new_partition[0][0][2] (lines 586, 596).
PartitionSpan(part) == part[Len(part)][1][4] - part[1][1][3]

\* One iteration of the loop of lines 573-594.  st holds pbid and pdirection
\* (<<>> is None), all_partitions and new_partition.
SegmentPhaseStep(st, entry, len_cutoff) ==
    LET smp == entry[1]
        bundle_info == entry[2]
    IN  IF bundle_info = <<>> THEN st
        ELSE LET d == IF smp[5] = bundle_info[2] THEN 0 ELSE 1
                 bid == bundle_info[1]
                 bpos == bundle_info[3]
             IN  IF st.pbid = <<>> /\ st.pdirection = <<>>
                 THEN [st EXCEPT !.new_partition = << <<smp, bid, d, bpos>> >>,
                                 !.pbid = <<bid>>, !.pdirection = <<d>>]
                 ELSE IF bid # st.pbid[1] \/ d # st.pdirection[1]
                 THEN [pbid |-> <<bid>>, pdirection |-> <<d>>,
                       all_partitions |->
                           IF PartitionSpan(st.new_partition) > len_cutoff
                           THEN Append(st.all_partitions, st.new_partition)
                           ELSE st.all_partitions,
                       new_partition |-> << <<smp, bid, d, bpos>> >>]
                 ELSE [st EXCEPT !.new_partition = Append(@, <<smp, bid, d, bpos>>)]

RECURSIVE SegmentPhaseLoop(_, _, _)
SegmentPhaseLoop(st, smps, len_cutoff) ==
    IF smps = <<>> THEN st
    ELSE SegmentPhaseLoop(SegmentPhaseStep(st, Head(smps), len_cutoff), Tail(smps), len_cutoff)

\* Lines 570-597: all_partitions.
AllPartitions(smps, len_cutoff) ==
    LET st == SegmentPhaseLoop([pbid |-> <<>>, pdirection |-> <<>>,
                                all_partitions |-> <<>>, new_partition |-> <<>>],
                               smps, len_cutoff)
    IN  IF Len(st.new_partition) # 0 /\ PartitionSpan(st.new_partition) > len_cutoff
        THEN Append(st.all_partitions, st.new_partition)
        ELSE st.all_partitions

Abs(x) == IF x < 0 THEN -x ELSE x

\* Line 613 with <= for <.
FusesWithinOrAt(partition, p, merge_length) ==
    LET last == partition[Len(partition)]
    IN  last[2] = p[1][2] /\ last[3] = p[1][3]
        /\ Abs(p[1][1][3] - last[1][4]) <= merge_length

\* Line 613: p is merged into the running partition.
Fuses(partition, p, merge_length) ==
    LET p_end == partition[Len(partition)][1][4]
        p_bid == partition[Len(partition)][2]
        p_d == partition[Len(partition)][3]
        np_bgn == p[1][1][3]
        np_bid == p[1][2]
        np_d == p[1][3]
    IN  p_bid = np_bid /\ p_d = np_d /\ Abs(np_bgn - p_end) < merge_length

\* The loop of lines 605-617.  partition and the elements of rtn_partitions
\* are lists of all_partitions, not copies: st holds all_partitions, the place
\* in it of the running partition, and the places of the lists appended to
\* rtn_partitions.  partition.extend(p) (line 614) grows the running list
\* where it is, in all_partitions.
RECURSIVE MergePhaseLoop(_, _, _)
MergePhaseLoop(st, j, merge_length) ==
    IF j > Len(st.all_partitions) THEN st
    ELSE LET p == st.all_partitions[j]
         IN  MergePhaseLoop(
                 IF Fuses(st.all_partitions[st.partition], p, merge_length)
                 THEN [st EXCEPT !.all_partitions[st.partition] = @ \o p]
                 ELSE [st EXCEPT !.rtn_partitions = Append(@, st.partition),
                                 !.partition = j],
                 j + 1, merge_length)

\* group_smps_by_principle_bundle_id(smps, len_cutoff, merge_length): the local
\* all_partitions as it is when the call returns, and the returned list.
group_smps_by_principle_bundle_id(smps, len_cutoff, merge_length) ==
    LET all_partitions == AllPartitions(smps, len_cutoff)
    IN  IF Len(all_partitions) = 0
        THEN [all_partitions |-> all_partitions, rtn_partitions |-> <<>>]
        ELSE LET st == MergePhaseLoop([all_partitions |-> all_partitions,
                                       rtn_partitions |-> <<>>, partition |-> 1],
                                      2, merge_length)
                 rtn == Append(st.rtn_partitions, st.partition)
             IN  [all_partitions |-> st.all_partitions,
                  rtn_partitions |-> [i \in 1..Len(rtn) |-> st.all_partitions[rtn[i]]]]

(***************************************************************************)
(* The calls of group_smps_by_principle_bundle_id.                         *)
(***************************************************************************)

MaxSmps == 5        \* the stream holds at most MaxSmps shimmer pairs
MaxLenCutoff == 1   \* len_cutoff is in 0..MaxLenCutoff
MaxMergeLen == 2    \* merge_length is in 0..MaxMergeLen

\* What the index says of a shimmer pair: no bundle (<<>>), or its direction
\* and the id of its bundle.
BundleTags == {<<>>} \cup { <<dir, bid>> : dir \in Bit, bid \in {0, 1} }

\* The stream get_principal_bundle_decomposition gives for a contig: the
\* pairs of consecutive minimizers in contig order, pair i from position
\* i - 1 to position i; a bundle has direction 0.
SmpStream(tags) ==
    [i \in 1..Len(tags) |->
        IF tags[i] = <<>> THEN << <<0, 0, i - 1, i, 0>>, <<>> >>
        ELSE << <<0, 0, i - 1, i, tags[i][1]>>, <<tags[i][2], 0, i>> >>]

InitSmps ==
    /\ pc = "smps_start"
    /\ \E tags \in UNION { [1..n -> BundleTags] : n \in 0..MaxSmps } :
       \E lc \in 0..MaxLenCutoff, ml \in 0..MaxMergeLen :
          smps_args = [smps |-> SmpStream(tags), len_cutoff |-> lc, merge_length |-> ml]
    /\ smps_rtn = Idle
    /\ IdleQuery /\ IdleMerge /\ IdleVariant /\ IdleVcf /\ IdleGfa

\* smps_rtn = group_smps_by_principle_bundle_id(smps, len_cutoff, merge_length)
GroupSmps ==
    /\ pc = "smps_start"
    /\ smps_rtn' = group_smps_by_principle_bundle_id(
                       smps_args.smps, smps_args.len_cutoff, smps_args.merge_length)
    /\ pc' = "smps_done"
    /\ UNCHANGED <<smps_args, queryVars, mergeVars, variantVars, vcfVars, gfaVars>>

NextSmps == GroupSmps

SpecSmps == InitSmps /\ [][NextSmps]_vars

\* The length-filtered partitions, as lines 570-597 leave all_partitions
\* before the merge phase.
Filtered == AllPartitions(smps_args.smps, smps_args.len_cutoff)

\* Partition j of the length-filtered partitions is to be fused into the
\* running partition, which ends with partition j - 1: same (bundle id,
\* direction), and the gap from the end of the running partition to the begin
\* of j is below merge_length.
ToFuse(parts, j) ==
    LET prev == parts[j - 1]
        p == parts[j]
        gap == p[1][1][3] - prev[Len(prev)][1][4]
    IN  /\ prev[Len(prev)][2] = p[1][2]
        /\ prev[Len(prev)][3] = p[1][3]
        /\ gap < smps_args.merge_length

\* The partitions that start a partition of the result: the first, and every
\* one that is not to be fused.
Starts(parts) ==
    { j \in 1..Len(parts) : j = 1 \/ ~ToFuse(parts, j) }

RECURSIVE ConcatPartitions(_, _, _)
ConcatPartitions(parts, from, to) ==
    IF from > to THEN <<>> ELSE parts[from] \o ConcatPartitions(parts, from + 1, to)

\* C6: in the merge phase a length-filtered partition is fused into the
\* running partition if and only if both have the same (bundle id, direction)
\* and the gap is below merge_length; otherwise the running partition is
\* flushed and the partition starts a new one.
C6_FusedIffSameIdentityAndGapBelow ==
    pc = "smps_done" =>
        LET parts == Filtered
            starts == Starts(parts)
        IN  /\ Len(smps_rtn.rtn_partitions) = Cardinality(starts)
            /\ \A j \in starts :
                  LET m == Cardinality({s \in starts : s <= j})
                      later == {s \in starts : s > j}
                      to == IF later = {} THEN Len(parts) ELSE SetMin(later) - 1
                  IN  smps_rtn.rtn_partitions[m] = ConcatPartitions(parts, j, to)

\* C6's case: two consecutive length-filtered partitions of one identity whose
\* gap equals merge_length, the least gap that does not fuse, and no
\* partition fused.
C6_Witness ==
    /\ pc = "smps_done"
    /\ LET parts == Filtered
       IN  /\ Len(parts) >= 2
           /\ \E j \in 2..Len(parts) :
                 LET prev == parts[j - 1]
                     p == parts[j]
                 IN  /\ prev[1][2] = p[1][2] /\ prev[1][3] = p[1][3]
                     /\ p[1][1][3] - prev[Len(prev)][1][4] = smps_args.merge_length
           /\ Len(smps_rtn.rtn_partitions) = Len(parts)

(***************************************************************************)
(* compute_graph_diffusion_entropy (lines 483-541), up to the transition   *)
(* matrix of line 530.                                                     *)
(*                                                                         *)
(* The file is the list of its lines, a line the list of its tab-separated *)
(* fields; an optional field such as SC:i:5 is the list of its             *)
(* colon-separated parts.  A matrix is a function on 0..n-1 of functions   *)
(* on 0..n-1.  The code divides in float32; here a quotient is the exact   *)
(* fraction <<numerator, denominator>>.  The power iteration and the       *)
(* entropy of lines 531-541 are floating-point values and are not          *)
(* represented.                                                            *)
(***************************************************************************)

\* int(s) for a string of one decimal digit.
ParseInt(str) == (CHOOSE i \in 1..10 : Digit[i] = str) - 1

\* Lines 508-514: the weight of a link from its optional fields.
RECURSIVE LinkWeight(_, _)
LinkWeight(fields, weight) ==
    IF fields = <<>> THEN (IF weight = <<>> THEN 1 ELSE weight[1])
    ELSE LinkWeight(Tail(fields),
                    IF Head(fields)[1] = "SC" THEN <<ParseInt(Head(fields)[3])>> ELSE weight)

\* Lines 502-518: adj_list, from the lines of the file.
RECURSIVE AdjList(_, _)
AdjList(adj_list, lines) ==
    IF lines = <<>> THEN adj_list
    ELSE LET rr == Head(lines)
         IN  IF rr[1] # "L" THEN AdjList(adj_list, Tail(lines))
             ELSE LET n1 == ParseInt(rr[2])
                      n2 == ParseInt(rr[4])
                      weight == LinkWeight(SubSeq(rr, 7, Len(rr)), <<>>)
                  IN  AdjList(DictAppend(DictAppend(adj_list, n1, <<n2, weight>>),
                                         n2, <<n1, weight>>),
                              Tail(lines))

\* adj_matrix[v][w] after lines 525-528: the weight of the last (w, weight) in
\* adj_list[v], 0 if there is none.
RECURSIVE LastWeight(_, _, _)
LastWeight(ws, w, found) ==
    IF ws = <<>> THEN found
    ELSE LastWeight(Tail(ws), w, IF Head(ws)[1] = w THEN Head(ws)[2] ELSE found)

AdjMatrix(adj_list, n_node) ==
    [v \in 0..(n_node - 1) |-> [w \in 0..(n_node - 1) |->
        IF v \in DOMAIN adj_list THEN LastWeight(adj_list[v], w, 0) ELSE 0]]

\* Lines 526-528 index adj_matrix by node id: an id that is not below n_node
\* raises IndexError.
IndexInRange(adj_list, n_node) ==
    \A v \in DOMAIN adj_list :
        v < n_node /\ \A i \in 1..Len(adj_list[v]) : adj_list[v][i][1] < n_node

RECURSIVE SumTo(_, _)
SumTo(f, n) == IF n < 0 THEN 0 ELSE f[n] + SumTo(f, n - 1)

\* np.sum(adj_matrix, axis=1)[i]: the sum of row i.
RowSum(m, i, n_node) == SumTo(m[i], n_node - 1)

\* Line 530: adj_matrix / np.sum(adj_matrix, axis=1).  The vector of row sums
\* is broadcast along the last axis: entry (i, j) is divided by element j of
\* the vector.  A division by a zero sum raises nothing: numpy gives nan for
\* 0 / 0 and inf for w / 0, here the fractions <<0, 0>> and <<w, 0>>.
Normalized(m, i, j, n_node) == <<m[i][j], RowSum(m, j, n_node)>>

\* compute_graph_diffusion_entropy(gfa_fn, max_nodes) on the lines of the
\* file: how the call ends ("None": too many nodes) and its locals.
compute_graph_diffusion_entropy(lines, max_nodes) ==
    LET adj_list == AdjList(<<>>, lines)
        n_node == Cardinality(DOMAIN adj_list)
        none == [status |-> "None", n_node |-> n_node, adj_matrix |-> <<>>,
                 n_adj_matrix |-> <<>>]
    IN  IF n_node > max_nodes THEN none
        ELSE IF ~IndexInRange(adj_list, n_node)
        THEN [none EXCEPT !.status = "IndexError"]
        ELSE LET adj_matrix == AdjMatrix(adj_list, n_node)
             IN  [status |-> "ok", n_node |-> n_node, adj_matrix |-> adj_matrix,
                  n_adj_matrix |->
                      [i \in 0..(n_node - 1) |-> [j \in 0..(n_node - 1) |->
                          Normalized(adj_matrix, i, j, n_node)]]]

(***************************************************************************)
(* The calls of compute_graph_diffusion_entropy.                           *)
(***************************************************************************)

MaxLines == 3       \* the file holds at most MaxLines lines
MaxNode == 2        \* node ids are in 0..MaxNode
MaxWeight == 2      \* an SC tag gives the weight 0 or a weight in 2..MaxWeight
FewNodes == 2       \* max_nodes is FewNodes or the default
DefaultMaxNodes == 6000

\* The lines of a GFA file: a segment line, or a link between two nodes with
\* or without an SC tag.
GfaLines ==
    { <<"S", "0", "*">> }
    \cup { <<"L", Digit[n1 + 1], "+", Digit[n2 + 1], "+", "*">> :
             n1 \in 0..MaxNode, n2 \in 0..MaxNode }
    \cup { <<"L", Digit[n1 + 1], "+", Digit[n2 + 1], "+", "*", <<"SC", "i", Digit[w + 1]>> >> :
             n1 \in 0..MaxNode, n2 \in 0..MaxNode, w \in {0} \cup (2..MaxWeight) }

\* A link is written once, from the smaller node id to the larger.
IsGfaLine(line) == line[1] = "L" => ParseInt(line[2]) < ParseInt(line[4])

InitGfa ==
    /\ pc = "gfa_start"
    /\ \E lines \in UNION { [1..n -> {l \in GfaLines : IsGfaLine(l)}] : n \in 0..MaxLines } :
       \E mn \in {FewNodes, DefaultMaxNodes} :
          gfa_args = [lines |-> lines, max_nodes |-> mn]
    /\ gfa_rtn = Idle
    /\ IdleQuery /\ IdleMerge /\ IdleVariant /\ IdleVcf /\ IdleSmps

\* gfa_rtn = compute_graph_diffusion_entropy(gfa_fn, max_nodes)
ComputeGraphDiffusionEntropy ==
    /\ pc = "gfa_start"
    /\ gfa_rtn' = compute_graph_diffusion_entropy(gfa_args.lines, gfa_args.max_nodes)
    /\ pc' = "gfa_done"
    /\ UNCHANGED <<gfa_args, queryVars, mergeVars, variantVars, vcfVars, smpsVars>>

NextGfa == ComputeGraphDiffusionEntropy

SpecGfa == InitGfa /\ [][NextGfa]_vars

\* Exact fractions of nonzero denominator: equality and sum.
RatEq(x, y) == x[1] * y[2] = y[1] * x[2]
RatAdd(x, y) == <<x[1] * y[2] + y[1] * x[2], x[2] * y[2]>>

\* The sum of the fractions f[0], ..., f[n].
RECURSIVE RatSumTo(_, _)
RatSumTo(f, n) == IF n < 0 THEN <<0, 1>> ELSE RatAdd(f[n], RatSumTo(f, n - 1))

Nodes == 0..(gfa_rtn.n_node - 1)

\* C7: the transition matrix is the row-normalized adjacency matrix: on a
\* graph where every row of A has a positive sum, entry (i, j) of the
\* transition matrix is A[i][j] divided by the sum of row i of A, and every
\* row of the transition matrix sums to 1.
C7_RowNormalized ==
    (/\ pc = "gfa_done" /\ gfa_rtn.status = "ok"
     /\ \A i \in Nodes : RowSum(gfa_rtn.adj_matrix, i, gfa_rtn.n_node) > 0) =>
        /\ \A i \in Nodes : \A j \in Nodes :
              RatEq(gfa_rtn.n_adj_matrix[i][j],
                    <<gfa_rtn.adj_matrix[i][j], RowSum(gfa_rtn.adj_matrix, i, gfa_rtn.n_node)>>)
        /\ \A i \in Nodes :
              RatEq(RatSumTo(gfa_rtn.n_adj_matrix[i], gfa_rtn.n_node - 1), <<1, 1>>)

====
